---- MODULE Spec2Model ----
(***************************************************************************)
(* fp-switch-on: a dispatcher built from a case-to-function map.           *)
(*                                                                         *)
(* The repository holds two variants of the module:                        *)
(*   src/unnamed/part_001  handlers are called with (choice, ...rest)      *)
(*   src/src/index.ts      handlers are called with no argument            *)
(* Each exports basedOn, switchOn (= basedOn), basedOnPartial and          *)
(* switchOnPartial (= basedOnPartial).                                     *)
(*                                                                         *)
(* A mapping object is a JavaScript object written as a literal: it has    *)
(* its own properties and inherits those of Object.prototype, and          *)
(* paths[choice] reads through that chain.  A dispatcher is a closure that *)
(* holds a reference to the mapping object it was given.  The model has    *)
(* one mapping object, which the caller keeps and may change, and the      *)
(* dispatchers built from it.                                              *)
(***************************************************************************)
EXTENDS Integers, Sequences, FiniteSets, TLC

VARIABLES impl, paths, disps, last

vars == <<impl, paths, disps, last>>

\* ------------------------------------------------------------- bounds
\* Most extra arguments a caller passes after the choice.
MaxRest == 2
\* Most dispatchers built from the mapping object.
MaxDisp == 1

\* ------------------------------------------------------- JS values
Num(v) == [t |-> "number", v |-> v]
Str(v) == [t |-> "string", v |-> v]
Sym(v) == [t |-> "symbol", v |-> v]
NoChoice == [t |-> "none", v |-> ""]

\* T extends string | number | symbol: the choice values a caller passes.
\* 1 and "2" are the declared domain; the others arrive dynamically.
Domain == {Num("1"), Str("2")}
Choices == Domain \cup {Num("10"), Str("toString"), Str("__proto__"), Sym("s")}

\* ...rest: P, the extra arguments: pairwise distinct values, so that a
\* dropped, added or moved argument shows.
Arg(i) == Str(ToString(i))
Rests == {[i \in 1..n |-> Arg(i)] : n \in 0..MaxRest}

\* A property key is a string or a symbol: a number is converted to its
\* decimal string, so paths[1] and paths["1"] read the same property.
ToPropertyKey(choice) ==
    IF choice.t = "number" THEN Str(choice.v) ELSE choice

\* The handlers a caller stores in a map.
\*   hEcho   (...args) => args             returns what it was given
\*   hAsync  async (...args) => args       returns a pending computation
\*   hThrow  (...args) => { throw ... }    raises an error holding its args
Handlers == {"hEcho", "hAsync", "hThrow"}

\* The own keys of the maps a caller writes, and every such map.
OwnKeys == {ToPropertyKey(c) : c \in Domain}
Tables == UNION {[K -> Handlers] : K \in SUBSET OwnKeys}

\* What an object literal inherits: a native function and the accessor
\* __proto__, whose value is an object and cannot be called.
ObjectPrototype ==
    (Str("toString") :> "Object.prototype.toString")
        @@ (Str("__proto__") :> "Object.prototype")

Callable(f) == f \in Handlers \cup {"Object.prototype.toString"}
Truthy(f) == f # "undefined"

\* An outcome of a call: a returned value or a raised error.
Return(tag, args) == [kind |-> "return", tag |-> tag, args |-> args]
Throw(tag, args) == [kind |-> "throw", tag |-> tag, args |-> args]
Undefined == Return("undefined", <<>>)

\* f(...args)
Apply(f, args) ==
    CASE f = "hEcho" -> Return("array", args)
      [] f = "hAsync" -> Return("promise", args)
      [] f = "hThrow" -> Throw("Error", args)
      [] f = "Object.prototype.toString" -> Return("string:[object Object]", <<>>)

\* paths[key]: the own property, else the inherited one, else undefined.
Get(tbl, key) ==
    IF key \in DOMAIN tbl THEN tbl[key]
    ELSE IF key \in DOMAIN ObjectPrototype THEN ObjectPrototype[key]
    ELSE "undefined"

\* Mutant of Call: after the matched function, control falls through into
\* the function stored under another own key, as in a switch without break.
Call_fallthrough(tbl, key, args) ==
    LET f == Get(tbl, key)
        others == DOMAIN tbl \ {key}
        first == [key |-> key, fn |-> f, args |-> args]
    IN
    IF ~Callable(f)
    THEN [outcome |-> Throw("TypeError", <<>>), calls |-> <<>>]
    ELSE IF others = {}
    THEN [outcome |-> Apply(f, args), calls |-> <<first>>]
    ELSE LET k == CHOOSE x \in others : TRUE IN
         [outcome |-> Apply(tbl[k], args),
          calls |-> <<first, [key |-> k, fn |-> tbl[k], args |-> args]>>]

\* paths[key](...args): the outcome and the functions that ran.
Call(tbl, key, args) ==
    LET f == Get(tbl, key) IN
    IF Callable(f)
    THEN [outcome |-> Apply(f, args),
          calls |-> <<[key |-> key, fn |-> f, args |-> args]>>]
    ELSE [outcome |-> Throw("TypeError", <<>>), calls |-> <<>>]

\* ------------------------------------------------- src/unnamed/part_001
\* Mutant of basedOn: the closure calls the handler and drops its result
\* (a block body without return).
basedOn_noReturn(tbl, choice, rest) ==
    LET r == Call(tbl, ToPropertyKey(choice), <<choice>> \o rest) IN
    IF r.outcome.kind = "return"
    THEN [outcome |-> Undefined, calls |-> r.calls]
    ELSE r

basedOn(tbl, choice, rest) ==
    Call(tbl, ToPropertyKey(choice), <<choice>> \o rest)

switchOn(tbl, choice, rest) == basedOn(tbl, choice, rest)

\* Mutant of basedOnPartial: the "never raises" of an absent choice widened
\* to a try/catch around the call, which turns a handler's error into
\* undefined.
basedOnPartial_catch(tbl, choice, rest) ==
    LET r == Call(tbl, ToPropertyKey(choice), <<choice>> \o rest) IN
    IF Truthy(Get(tbl, ToPropertyKey(choice))) /\ r.outcome.kind = "return"
    THEN r
    ELSE [outcome |-> Undefined, calls |-> r.calls]

basedOnPartial(tbl, choice, rest) ==
    IF Truthy(Get(tbl, ToPropertyKey(choice)))
    THEN Call(tbl, ToPropertyKey(choice), <<choice>> \o rest)
    ELSE [outcome |-> Undefined, calls |-> <<>>]

\* Mutant of switchOnPartial: the alias bound to the wrong function
\* (export const switchOnPartial = basedOn).
switchOnPartial_exhaustive(tbl, choice, rest) == basedOn(tbl, choice, rest)

switchOnPartial(tbl, choice, rest) == basedOnPartial(tbl, choice, rest)

\* ----------------------------------------------------- src/src/index.ts
\* (choice: T) => paths[choice](): what follows the choice is dropped.
index_basedOn(tbl, choice, rest) ==
    Call(tbl, ToPropertyKey(choice), <<>>)

index_switchOn(tbl, choice, rest) == index_basedOn(tbl, choice, rest)

index_basedOnPartial(tbl, choice, rest) ==
    IF Truthy(Get(tbl, ToPropertyKey(choice)))
    THEN Call(tbl, ToPropertyKey(choice), <<>>)
    ELSE [outcome |-> Undefined, calls |-> <<>>]

index_switchOnPartial(tbl, choice, rest) ==
    index_basedOnPartial(tbl, choice, rest)

\* ------------------------------------------------------------ exports
Impls == {"part_001", "index"}
Names == {"basedOn", "switchOn", "basedOnPartial", "switchOnPartial"}
Exhaustive == {"basedOn", "switchOn"}
Partial == {"basedOnPartial", "switchOnPartial"}

\* The function the name is bound to in the module that was imported.
Dispatch(im, fn, tbl, choice, rest) ==
    CASE im = "part_001" /\ fn = "basedOn" -> basedOn(tbl, choice, rest)
      [] im = "part_001" /\ fn = "switchOn" -> switchOn(tbl, choice, rest)
      [] im = "part_001" /\ fn = "basedOnPartial" ->
            basedOnPartial(tbl, choice, rest)
      [] im = "part_001" /\ fn = "switchOnPartial" ->
            switchOnPartial(tbl, choice, rest)
      [] im = "index" /\ fn = "basedOn" -> index_basedOn(tbl, choice, rest)
      [] im = "index" /\ fn = "switchOn" -> index_switchOn(tbl, choice, rest)
      [] im = "index" /\ fn = "basedOnPartial" ->
            index_basedOnPartial(tbl, choice, rest)
      [] im = "index" /\ fn = "switchOnPartial" ->
            index_switchOnPartial(tbl, choice, rest)

\* ------------------------------------------------------------ state
\* impl   the module the program imported
\* paths  the mapping object: its own properties
\* disps  the dispatchers built from paths: the exported name each was built
\*        with (each closure holds the reference to paths)
\* last   the last operation and what it gave; again: the operation before
\*        it was the same invocation
NoOp ==
    [op |-> "none", d |-> 0, c |-> NoChoice, rest |-> <<>>,
     outcome |-> Undefined, calls |-> <<>>, again |-> FALSE]

Init ==
    /\ impl \in Impls
    /\ paths \in Tables
    /\ disps = <<>>
    /\ last = NoOp

\* fn(paths): (paths) => (choice, ...rest) => ...  The outer arrow function
\* runs nothing: it returns the closure, which keeps the reference to paths.
Closure(fn) ==
    [outcome |-> Return("function", <<>>), calls |-> <<>>, disp |-> fn]

Construct(fn) ==
    /\ Len(disps) < MaxDisp
    /\ LET r == Closure(fn)
       IN /\ disps' = Append(disps, r.disp)
          /\ last' = [NoOp EXCEPT !.op = "construct", !.d = Len(disps) + 1,
                                  !.outcome = r.outcome, !.calls = r.calls]
    /\ UNCHANGED <<impl, paths>>

\* Mutant of Invoke: a one-shot dispatcher, which removes the entry it has
\* just used from the mapping object.
Invoke_consuming(d, choice, rest) ==
    /\ d \in 1..Len(disps)
    /\ LET r == Dispatch(impl, disps[d], paths, choice, rest)
       IN last' = [op |-> "invoke", d |-> d, c |-> choice, rest |-> rest,
                   outcome |-> r.outcome, calls |-> r.calls,
                   again |-> /\ last.op = "invoke"
                             /\ last.d = d
                             /\ last.c = choice
                             /\ last.rest = rest]
    /\ paths' = [k \in DOMAIN paths \ {ToPropertyKey(choice)} |-> paths[k]]
    /\ UNCHANGED <<impl, disps>>

\* Mutant of Invoke: a memoizing dispatcher, which answers from the result
\* of its previous invocation whatever the choice.
Invoke_memo(d, choice, rest) ==
    /\ d \in 1..Len(disps)
    /\ LET r == IF last.op = "invoke" /\ last.d = d
                THEN [outcome |-> last.outcome, calls |-> <<>>]
                ELSE Dispatch(impl, disps[d], paths, choice, rest)
       IN last' = [op |-> "invoke", d |-> d, c |-> choice, rest |-> rest,
                   outcome |-> r.outcome, calls |-> r.calls,
                   again |-> /\ last.op = "invoke"
                             /\ last.d = d
                             /\ last.c = choice
                             /\ last.rest = rest]
    /\ UNCHANGED <<impl, paths, disps>>

\* dispatcher(choice, ...rest): reads the mapping object as it is now and
\* writes nothing.
Invoke(d, choice, rest) ==
    /\ d \in 1..Len(disps)
    /\ LET r == Dispatch(impl, disps[d], paths, choice, rest)
       IN last' = [op |-> "invoke", d |-> d, c |-> choice, rest |-> rest,
                   outcome |-> r.outcome, calls |-> r.calls,
                   again |-> /\ last.op = "invoke"
                             /\ last.d = d
                             /\ last.c = choice
                             /\ last.rest = rest]
    /\ UNCHANGED <<impl, paths, disps>>

\* The caller still holds the object it passed in: paths[key] = f
CallerSet(key, f) ==
    /\ paths' = [k \in DOMAIN paths \cup {key} |->
                    IF k = key THEN f ELSE paths[k]]
    /\ paths' # paths
    /\ last' = [NoOp EXCEPT !.op = "mutate"]
    /\ UNCHANGED <<impl, disps>>

\* delete paths[key]
CallerDelete(key) ==
    /\ key \in DOMAIN paths
    /\ paths' = [k \in DOMAIN paths \ {key} |-> paths[k]]
    /\ last' = [NoOp EXCEPT !.op = "mutate"]
    /\ UNCHANGED <<impl, disps>>

Next ==
    \/ \E fn \in Names : Construct(fn)
    \/ \E d \in 1..MaxDisp, c \in Choices, rest \in Rests : Invoke(d, c, rest)
    \/ \E key \in OwnKeys, f \in Handlers : CallerSet(key, f)
    \/ \E key \in OwnKeys : CallerDelete(key)

Spec == Init /\ [][Next]_vars

TypeOK ==
    /\ impl \in Impls
    /\ paths \in Tables
    /\ Len(disps) <= MaxDisp
    /\ \A d \in 1..Len(disps) : disps[d] \in Names
    /\ last.op \in {"none", "construct", "invoke", "mutate"}

\* ------------------------------------------------------------ claims
\* What the last invocation was made with.  A caller's change of the mapping
\* object resets last, so paths is the table that invocation read.
IsInvoke == last.op = "invoke"
LastFn == disps[last.d]
LastKey == ToPropertyKey(last.c)
Present == LastKey \in DOMAIN paths
LastArgs == <<last.c>> \o last.rest

\* paths[choice], as every dispatcher built from paths reads it.
Lookup(choice) == Get(paths, ToPropertyKey(choice))

C2_PartialAbsentGivesUndefined ==
    (IsInvoke /\ LastFn \in Partial /\ ~Present)
    => (last.outcome = Undefined /\ last.calls = <<>>)

\* C3 (as claimed): the exhaustive dispatcher invoked with any choice that is
\* not a key of the table raises an error, returns no value and invokes
\* nothing.
C3_ExhaustiveAbsentRaises ==
    (IsInvoke /\ LastFn \in Exhaustive /\ ~Present)
    => (last.outcome.kind = "throw" /\ last.calls = <<>>)

\* C4 (as claimed): for a choice that is a key of the table, the partial
\* dispatcher gives exactly what M'[c](c, ...extra) gives, which is also what
\* the exhaustive dispatcher built from the same table gives for that call.
C4_PartialPresentEqualsHandlerAndExhaustive ==
    (IsInvoke /\ LastFn \in Partial /\ Present)
    => /\ last.outcome = Apply(paths[LastKey], LastArgs)
       /\ last.outcome =
            Dispatch(impl, "basedOn", paths, last.c, last.rest).outcome

\* C5 (as claimed): in both modes and both source variants, the handler of
\* a present choice receives the choice first and then the caller's extra
\* arguments, in order and unchanged.
C5_HandlerReceivesChoiceThenRest ==
    (IsInvoke /\ Present)
    => last.calls =
         <<[key |-> LastKey, fn |-> paths[LastKey], args |-> LastArgs]>>

\* C6: in both modes, when the matched handler raises an error the
\* invocation raises that same error, and the handler ran once.
C6_HandlerErrorPassesThrough ==
    (IsInvoke /\ Present /\ paths[LastKey] = "hThrow")
    => /\ Len(last.calls) = 1
       /\ last.calls[1].fn = "hThrow"
       /\ last.outcome = Apply("hThrow", last.calls[1].args)
       /\ last.outcome.kind = "throw"

C6_Witness ==
    /\ IsInvoke
    /\ LastFn \in Partial
    /\ Present
    /\ paths[LastKey] = "hThrow"
    /\ last.outcome.kind = "throw"
    /\ last.outcome.tag = "Error"

\* C7 (as claimed): once a dispatcher is built, its lookup for every choice
\* stays what it was, whatever the caller does to the mapping object it
\* passed in.
C7_LookupFixedAtConstruction ==
    [][Len(disps) > 0 => \A c \in Choices : Lookup(c)' = Lookup(c)]_vars

\* C7 (amended): no construction and no invocation of a dispatcher adds,
\* removes or replaces an entry: across such a step the lookup for every
\* choice is unchanged.  The dispatcher reads the caller's object, not a
\* copy: each change the caller makes to it changes what the dispatcher
\* finds for the choice whose entry was written or deleted.
C7_DispatcherNeverChangesLookup ==
    [][/\ last'.op \in {"construct", "invoke"}
          => \A c \in Choices : Lookup(c)' = Lookup(c)
       /\ last'.op = "mutate"
          => \E c \in Domain : Lookup(c)' # Lookup(c)]_vars

C7_Witness ==
    /\ IsInvoke
    /\ last.again
    /\ Len(last.calls) = 1
    /\ DOMAIN paths = OwnKeys

\* C8: an invocation leaves the mapping object and the dispatchers as they
\* were, its outcome is decided by the table, the choice and the arguments
\* alone, and the same invocation made twice in a row gives the same outcome
\* and runs the same handler with the same arguments.
C8_SameCallSameOutcome ==
    [][last'.op = "invoke"
         => /\ paths' = paths
            /\ disps' = disps
            /\ last'.outcome =
                 Dispatch(impl, disps[last'.d], paths, last'.c, last'.rest).outcome
            /\ last'.again
                 => (last'.outcome = last.outcome /\ last'.calls = last.calls)]_vars

C8_Witness ==
    /\ IsInvoke
    /\ last.again
    /\ Present
    /\ last.outcome.kind = "return"
    /\ Len(last.rest) > 0

\* C9: switchOn gives what basedOn gives and switchOnPartial what
\* basedOnPartial gives, for the same table, choice and extra arguments, in
\* both source variants.
C9_AliasesInterchangeable ==
    IsInvoke
    => /\ LastFn = "switchOn"
          => [outcome |-> last.outcome, calls |-> last.calls]
               = Dispatch(impl, "basedOn", paths, last.c, last.rest)
       /\ LastFn = "switchOnPartial"
          => [outcome |-> last.outcome, calls |-> last.calls]
               = Dispatch(impl, "basedOnPartial", paths, last.c, last.rest)

C9_Witness ==
    /\ IsInvoke
    /\ LastFn = "switchOnPartial"
    /\ last.c = Num("10")
    /\ last.outcome = Undefined

\* C10: building a dispatcher runs no handler and raises nothing, whatever
\* the table omits; an invocation runs at most one function, the one found
\* under the given choice, exactly once when the choice is a key of the
\* table, and never what is stored under another key.
C10_AtMostTheMatchedHandler ==
    /\ last.op = "construct"
         => (last.outcome.kind = "return" /\ last.calls = <<>>)
    /\ IsInvoke
         => /\ Len(last.calls) <= 1
            /\ \A i \in 1..Len(last.calls) : last.calls[i].key = LastKey
            /\ Present
                 => /\ Len(last.calls) = 1
                    /\ last.calls[1].fn = paths[LastKey]

C10_Witness ==
    /\ IsInvoke
    /\ DOMAIN paths = OwnKeys
    /\ paths[Str("1")] # paths[Str("2")]
    /\ Present
    /\ Len(last.calls) = 1
====
